---- MODULE Spec2Model ----
(***************************************************************************)
(* FZEasyMarauderFlash: EasyInstall.py drives an ESP32Flasher, which uses  *)
(* a FirmwareManager.  The model follows one process run from the moment   *)
(* the flasher object is constructed and the command line is stored in it. *)
(* The external collaborators (esptool, git, requests, the serial port     *)
(* enumeration, the operator at the prompt, the disk) are nondeterministic *)
(* choices over small sets.                                                *)
(***************************************************************************)
EXTENDS Integers, Sequences, FiniteSets, TLC

VARIABLES
    pc,                 \* the method the single control thread is in
    err,                \* why the process ended ("" while it runs)
    args,               \* the parsed command line [serialport, preselect]
    serialport,         \* ESP32Flasher.serialport
    fwchoice,           \* ESP32Flasher.fwchoice (None until chosen)
    fwchoicepreselect,  \* ESP32Flasher.fwchoicepreselect: "unset", "True", "False"
    selectedfw,         \* ESP32Flasher.selectedfw
    selectedboard,      \* ESP32Flasher.selectedboard
    fw,                 \* the firmware path attributes set by the prerequisite checks
    profile,            \* locals of flash_fimware unpacked from the table row
    flashparams,        \* local flashparams of flash_firmware (<<>> until built)
    attempts,           \* local attempts of the running execute_esptool_command
    nested,             \* TRUE inside the choose_fw called by checkforserialport
    device,             \* local device of the last checkforserialport that scanned
    ports,              \* the list comports() returned to the last scan
    dirs,               \* directories that exist on disk
    files,              \* files on disk: path -> creation time
    clock,              \* the disk's creation-time clock
    calls,              \* every esptool.main invocation so far, with its outcome
    gitlog,             \* every repository-sync call so far
    fetchlog,           \* every requests.get call so far
    updates,            \* completed update_option refreshes
    prompts,            \* times the operator was asked for a choice
    discoveries,        \* times checkforserialport was entered
    tampered,           \* a cache directory was deleted from outside the process
    runs                \* process runs started on this disk, this one included

vars == <<pc, err, args, serialport, fwchoice, fwchoicepreselect, selectedfw,
          selectedboard, fw, profile, flashparams, attempts, nested, device,
          ports, dirs, files, clock, calls, gitlog, fetchlog, updates, prompts,
          discoveries, tampered, runs>>

(***************************************************************************)
(* Bounds of the model.                                                    *)
(***************************************************************************)
\* ports the operating system enumerates at most
MaxPorts == 2
\* update_option refreshes one run performs before the interpreter's
\* recursion limit ends it (every refresh nests three more frames)
MaxUpdates == 2
\* process runs started on one disk at most
MaxRuns == 2

(***************************************************************************)
(* Python values.                                                          *)
(***************************************************************************)
\* None where an int is expected (fwchoice, --preselect)
None == -1000
\* None where a str is expected (a firmware path, a table cell)
NoneStr == "None"

(***************************************************************************)
(* ESP32Flasher.__init__ and the flash_options table.                      *)
(***************************************************************************)
BR == "115200"

extraesp32bins == "Extra_ESP32_Bins"

flash_options ==
    [c \in 1..18 |->
      CASE c = 1  -> <<"Marauder", "ESP32-S2", "4MB", "0x1000", "Marauder/bootloader.bin", "0x8000", "Marauder/partitions.bin", "0x10000", "esp32marauderfw">>
        [] c = 2  -> <<"Save Flipper Blackmagic WiFi settings", "ESP32-S2", "4MB", "0x1000", "Blackmagic/bootloader.bin", "0x8000", "Blackmagic/partition-table.bin", "0x10000", "Blackmagic/blackmagic.bin">>
        [] c = 3  -> <<"Blackmagic", "ESP32-S2", "4MB", "0x1000", "Blackmagic/bootloader.bin", "0x8000", "Blackmagic/partition-table.bin", "0x10000", "Blackmagic/blackmagic.bin">>
        [] c = 4  -> <<"Marauder", "ESP32-WROOM", "4MB", "0x1000", "bootloader.bin", "0x8000", "partitions.bin", "0x10000", "espoldhardwarefw">>
        [] c = 5  -> <<"Marauder", "ESP32 Marauder Mini", "4MB", "0x1000", "bootloader.bin", "0x8000", "partitions.bin", "0x10000", "esp32minifw">>
        [] c = 6  -> <<"Marauder v6", "ESP32-WROOM", "4MB", "0x1000", "bootloader.bin", "0x8000", "partitions.bin", "0x10000", "espnewhardwarefw">>
        [] c = 7  -> <<"Marauder", "ESP32-S3", "8MB", "0x0", "S3/bootloader.bin", "0x8000", "S3/partitions.bin", "0xE000", "S3/boot_app0.bin", "0x10000", "esp32s3fw">>
        [] c = 8  -> <<"Marauder", "AWOK v1-3 or Duoboard", "4MB", "0x1000", "bootloader.bin", "0x8000", "partitions.bin", "0x10000", "espoldhardwarefw">>
        [] c = 9  -> <<"Marauder", "AWOK v4 Chungus Board", "4MB", "0x1000", "Marauder/bootloader.bin", "0x8000", "Marauder/partitions.bin", "0x10000", "esp32marauderfw">>
        [] c = 10 -> <<"Marauder", "AWOK v5 ESP32", "4MB", "0x1000", "Marauder/bootloader.bin", "0x8000", "Marauder/partitions.bin", "0x10000", "esp32marauderfw">>
        [] c = 11 -> <<"Marauder", "AWOK Dual ESP32 (Orange Port)", "4MB", "0x1000", "Marauder/bootloader.bin", "0x8000", "Marauder/partitions.bin", "0x10000", "esp32marauderfw">>
        [] c = 12 -> <<"Marauder", "AWOK Dual ESP32 Touch Screen (White Port)", "4MB", "0x1000", "bootloader.bin", "0x8000", "partitions.bin", "0x10000", "espnewhardwarefw">>
        [] c = 13 -> <<"Marauder Mini", "AWOK Dual ESP32 Mini (White Port)", "4MB", "0x1000", "bootloader.bin", "0x8000", "partitions.bin", "0x10000", "esp32minifw">>
        [] c = 14 -> <<"Evil Portal", "ESP32-WROOM", "4MB", "0x1000", "evilportalfwwroom">>
        [] c = 15 -> <<"Evil Portal", "ESP32-S2", "4MB", "0x1000", "evilportalfws2">>
        [] c = 16 -> <<"Erase ESP32", NoneStr, NoneStr, NoneStr, NoneStr, NoneStr, NoneStr, NoneStr, NoneStr>>
        [] c = 17 -> <<"Update all files", NoneStr, NoneStr, NoneStr, NoneStr, NoneStr, NoneStr, NoneStr, NoneStr>>
        [] OTHER  -> <<"Exit", NoneStr, NoneStr, NoneStr, NoneStr, NoneStr, NoneStr, NoneStr, NoneStr>>]

\* a membership test that checks the lower end of the menu only
ValidChoiceFromOne(c) == c >= 1

\* `self.fwchoice not in flash_options` is false
ValidChoice(c) == c \in DOMAIN flash_options

\* flash_options[c]; a key the dict lacks has no row
OptionRow(c) == IF c \in DOMAIN flash_options THEN flash_options[c] ELSE <<>>

\* the nine-name tuple assignment succeeds only on a row of nine cells
UnpackTargets == 9

Unpacks(row) == Len(row) = UnpackTargets

\* the locals the tuple assignment binds, in the order of its targets
Unpack(row) ==
    [selectedfw |-> row[1], selectedboard |-> row[2], flashsize |-> row[3],
     offset_one |-> row[4], bootloader_bin |-> row[5],
     offset_two |-> row[6], partitions_bin |-> row[7],
     offset_three |-> row[8], fwbin |-> row[9]]

NoProfile ==
    [selectedfw |-> "", selectedboard |-> "", flashsize |-> "",
     offset_one |-> "", bootloader_bin |-> "", offset_two |-> "",
     partitions_bin |-> "", offset_three |-> "", fwbin |-> ""]

\* eraseparams as flash_firmware builds it
EraseParams(port) == <<"-p", port, "-b", BR, "erase_flash">>

\* flashparams as flash_firmware builds it
FlashParams(port, board, p) ==
    <<"-p", port, "-b", BR, "-c", board, "--before", "default_reset",
      "-a", "no_reset", "write_flash", "--flash_mode", "dio",
      "--flash_freq", "80m", "--flash_size", p.flashsize,
      p.offset_one, p.bootloader_bin, p.offset_two, p.partitions_bin,
      p.offset_three, p.fwbin>>

\* the parameter list erase_esp32 hands to execute_esptool_command
EraseCommand == <<"erase_flash">>

(***************************************************************************)
(* The disk: the directories and files the program creates and reads.      *)
(***************************************************************************)
RepoGitDir == "Extra_ESP32_Bins/.git"

MarauderDir == "ESP32Marauder"

ReleasesDir == "ESP32Marauder/releases"

EvilPortalDir == "EvilPortal"

EvilPortalWroomBin == "EvilPortal/EvilPortalWROOM.bin"

EvilPortalS2Bin == "EvilPortal/EvilPortalS2.bin"

\* file names of release assets, each with the tail a glob pattern tests
ReleaseNames ==
    {"esp32_marauder_v1_flipper.bin", "esp32_marauder_v2_flipper.bin",
     "esp32_marauder_v2_multiboardS3.bin", "esp32_marauder_v2_old_hardware.bin",
     "esp32_marauder_v2_mini.bin", "esp32_marauder_v2_v6.bin"}

NameTail(n) ==
    CASE n \in {"esp32_marauder_v1_flipper.bin", "esp32_marauder_v2_flipper.bin"} -> "_flipper.bin"
      [] n = "esp32_marauder_v2_multiboardS3.bin" -> "ultiboardS3.bin"
      [] n = "esp32_marauder_v2_old_hardware.bin" -> "_old_hardware.bin"
      [] n = "esp32_marauder_v2_mini.bin" -> "_mini.bin"
      [] n = "esp32_marauder_v2_v6.bin" -> "_v6.bin"
      [] OTHER -> ""

\* f'ESP32Marauder/releases/{filename}'
ReleasePath(n) == ReleasesDir \o "/" \o n

\* glob.glob('ESP32Marauder/releases/esp32_marauder_v*<tail>') over the disk
Glob(fs, tail) ==
    {p \in DOMAIN fs : \E n \in ReleaseNames : p = ReleasePath(n) /\ NameTail(n) = tail}

\* a resolver that keeps a file of least creation time
get_oldest_firmware(fs, tail) ==
    LET firmware_files == Glob(fs, tail)
    IN  IF firmware_files = {} THEN {NoneStr}
        ELSE {p \in firmware_files : \A q \in firmware_files : fs[p] <= fs[q]}

\* FirmwareManager.get_latest_firmware: the values it can return.  max()
\* keeps the first file of greatest creation time in glob's order, which the
\* file system decides, so any file of greatest creation time can come back.
get_latest_firmware(fs, tail) ==
    LET firmware_files == Glob(fs, tail)
    IN  IF firmware_files = {} THEN {NoneStr}
        ELSE {p \in firmware_files : \A q \in firmware_files : fs[q] <= fs[p]}

\* open(path, 'wb').write(...): the file exists afterwards, created now
WriteFile(fs, p, t) == [q \in DOMAIN fs \cup {p} |-> IF q = p THEN t ELSE fs[q]]

\* os.remove of every file of a set
RemoveFiles(fs, gone) == [q \in DOMAIN fs \ gone |-> fs[q]]

\* Path(cwd).rglob('ESP32Marauder/*/*') and rglob('EvilPortal/*')
CachedAssetFiles(fs) ==
    {p \in DOMAIN fs : \/ \E n \in ReleaseNames : p = ReleasePath(n)
                       \/ p \in {EvilPortalWroomBin, EvilPortalS2Bin}}

(***************************************************************************)
(* The remote side: what the release metadata lists.  A URL is the         *)
(* sequence of its '/'-separated parts.                                    *)
(***************************************************************************)
marauderapi ==
    <<"https:", "api.github.com", "repos", "justcallmekoko", "ESP32Marauder", "releases", "latest">>

AssetUrl(n) ==
    <<"https:", "github.com", "justcallmekoko", "ESP32Marauder", "releases", "download", n>>

evilportalwroomurl ==
    <<"https:", "github.com", "bigbrodude6119", "flipper-zero-evil-portal", "raw", "main", "Single%20File%20Bins", "Evil%20Portal%20WROOM.bin">>

evilportals2url ==
    <<"https:", "github.com", "bigbrodude6119", "flipper-zero-evil-portal", "raw", "main", "Single%20File%20Bins", "Evil%20Portal%20WiFi%20Board%20or%20S2.bin">>

\* marauderasset.rsplit('/', 1)[1]
RSplitLast(url) == url[Len(url)]

\* the asset lists the "latest release" endpoint can answer with
RemoteReleases ==
    { <<AssetUrl("esp32_marauder_v2_flipper.bin"), AssetUrl("esp32_marauder_v2_old_hardware.bin"),
        AssetUrl("esp32_marauder_v2_mini.bin"), AssetUrl("esp32_marauder_v2_v6.bin")>>,
      <<AssetUrl("esp32_marauder_v2_flipper.bin"), AssetUrl("esp32_marauder_v2_multiboardS3.bin"),
        AssetUrl("esp32_marauder_v1_flipper.bin")>> }

\* the disk after the first k assets of a list were downloaded in order
RECURSIVE Downloaded(_, _, _, _)
Downloaded(fs, t, assets, k) ==
    IF k = 0 THEN fs
    ELSE WriteFile(Downloaded(fs, t, assets, k - 1),
                   ReleasePath(RSplitLast(assets[k])), t + k - 1)

(***************************************************************************)
(* Disks a run can start on: nothing cached yet, everything cached by an   *)
(* earlier run (two flipper builds of one creation time among it), or the  *)
(* directories an earlier run created before a fetch of it failed.         *)
(***************************************************************************)
FreshDisk == [dirs |-> {}, files |-> <<>>]

CachedDisk ==
    [dirs  |-> {extraesp32bins, RepoGitDir, MarauderDir, ReleasesDir, EvilPortalDir},
     files |-> [p \in {ReleasePath("esp32_marauder_v1_flipper.bin"),
                       ReleasePath("esp32_marauder_v2_flipper.bin"),
                       ReleasePath("esp32_marauder_v2_mini.bin"),
                       EvilPortalWroomBin, EvilPortalS2Bin} |->
                  IF p = ReleasePath("esp32_marauder_v2_mini.bin") THEN 2 ELSE 1]]

LeftoverDisk ==
    [dirs  |-> {extraesp32bins, MarauderDir, ReleasesDir, EvilPortalDir},
     files |-> <<>>]

InitialDisks == {FreshDisk, CachedDisk, LeftoverDisk}

(***************************************************************************)
(* The serial ports.  A port's hwid is the sequence of the identifiers in  *)
(* it (vendor id, product id); `vid in port.hwid` finds one of them.       *)
(***************************************************************************)
vids == <<"303A", "10C4", "1A86", "0483">>

Unbound == "unbound"

HwIds ==
    { <<"303A", "1001">>, <<"10C4", "EA60">>, <<"1A86", "7523">>,
      <<"0483", "5740">>, <<"2341", "0043">> }

\* the device name of the i-th port enumerated
DeviceName(i) == "/dev/ttyUSB" \o ToString(i)

\* what comports() can return: up to MaxPorts ports, any hardware ids
PortLists ==
    UNION { { [i \in 1..n |-> [device |-> DeviceName(i), hwid |-> h[i]]] : h \in [1..n -> HwIds] }
            : n \in 0..MaxPorts }

\* vid in port.hwid
Contains(vid, hwid) == \E k \in 1..Len(hwid) : hwid[k] = vid

\* the inner loop as it would be if a vendor id that matched kept the port
\* against every later vendor id
RECURSIVE InnerLoopFirstVendor(_, _, _, _)
InnerLoopFirstVendor(vid, ps, j, st) ==
    IF j > Len(ps) THEN st
    ELSE InnerLoopFirstVendor(vid, ps, j + 1,
                   IF Contains(vid, ps[j].hwid) /\ st.device \in {Unbound, vid}
                   THEN [serialport |-> ps[j].device, device |-> vid]
                   ELSE st)

\* `for port in ports:` from the j-th port on, for one vid; st holds
\* self.serialport and the local device
RECURSIVE InnerLoop(_, _, _, _)
InnerLoop(vid, ps, j, st) ==
    IF j > Len(ps) THEN st
    ELSE InnerLoop(vid, ps, j + 1,
                   IF Contains(vid, ps[j].hwid)
                   THEN [serialport |-> ps[j].device, device |-> vid]
                   ELSE st)

\* `for vid in vids:` from the i-th vid on
RECURSIVE OuterLoop(_, _, _, _)
OuterLoop(vs, i, ps, st) ==
    IF i > Len(vs) THEN st
    ELSE OuterLoop(vs, i + 1, ps, InnerLoop(vs[i], ps, 1, st))

\* the scan of checkforserialport, entered with self.serialport empty
ScanPorts(ps) == OuterLoop(vids, 1, ps, [serialport |-> "", device |-> Unbound])

(***************************************************************************)
(* The operator's answer at the prompt, a line of characters, and          *)
(* int(line): an optional sign and then one or more digits.                *)
(***************************************************************************)
\* characters a typed line has at most
MaxLine == 2

Chars == {"1", "6", "7", "8", "x", "-"}

Digits == {"1", "6", "7", "8"}

DigitValue(c) == CASE c = "1" -> 1 [] c = "6" -> 6 [] c = "7" -> 7 [] OTHER -> 8

InputLines == UNION { [1..n -> Chars] : n \in 0..MaxLine }

Unsigned(line) ==
    IF Len(line) > 0 /\ line[1] = "-" THEN Tail(line) ELSE line

\* int(line) does not raise ValueError
IsIntLiteral(line) ==
    /\ Len(Unsigned(line)) > 0
    /\ \A i \in 1..Len(Unsigned(line)) : Unsigned(line)[i] \in Digits

RECURSIVE DigitsValue(_)
DigitsValue(ds) ==
    IF ds = <<>> THEN 0
    ELSE 10 * DigitsValue(SubSeq(ds, 1, Len(ds) - 1)) + DigitValue(ds[Len(ds)])

\* int(line)
IntOf(line) ==
    IF Len(line) > 0 /\ line[1] = "-"
    THEN 0 - DigitsValue(Unsigned(line))
    ELSE DigitsValue(line)

(***************************************************************************)
(* The command line: --serialport and --preselect.                         *)
(***************************************************************************)
\* the greatest --preselect value tried (the least is 0)
MaxPreselect == 19

CommandLines ==
    [serialport : {"", "COM7"}, preselect : {None} \cup 0..MaxPreselect]

(***************************************************************************)
(* The state after `flasher = ESP32Flasher()` and the two assignments of   *)
(* the command line, on one of the disks.                                  *)
(***************************************************************************)
NoFirmware ==
    [esp32marauderfw |-> "unset", esp32s3fw |-> "unset", espoldhardwarefw |-> "unset",
     esp32minifw |-> "unset", espnewhardwarefw |-> "unset",
     evilportalfwwroom |-> "unset", evilportalfws2 |-> "unset"]

Init ==
    /\ args \in CommandLines
    /\ \E d \in InitialDisks : dirs = d.dirs /\ files = d.files
    /\ clock = 3
    /\ serialport = args.serialport
    /\ fwchoice = args.preselect
    /\ fwchoicepreselect = "unset"
    /\ selectedfw = ""
    /\ selectedboard = ""
    /\ fw = NoFirmware
    /\ profile = NoProfile
    /\ flashparams = <<>>
    /\ attempts = 0
    /\ nested = FALSE
    /\ device = Unbound
    /\ ports = <<>>
    /\ calls = <<>>
    /\ gitlog = <<>>
    /\ fetchlog = <<>>
    /\ updates = 0
    /\ prompts = 0
    /\ discoveries = 0
    /\ tampered = FALSE
    /\ runs = 1
    /\ pc = "check_and_download"
    /\ err = ""

\* the process has ended: main returned, exit() was called, or an
\* exception reached the top
Terminal == {"done", "exited", "crashed"}

envVars == <<dirs, files, clock, gitlog, fetchlog, tampered>>

choiceVars == <<fwchoice, fwchoicepreselect, prompts>>

flashVars == <<selectedfw, selectedboard, profile, flashparams, attempts, calls>>

portVars == <<serialport, device, ports, discoveries, nested>>

(***************************************************************************)
(* prereqcheck, one action per method it calls.                            *)
(***************************************************************************)
\* a makedirs that creates nothing
makedirs_nothing(ds, path) == ds

\* os.makedirs(path): the directory and, for ESP32Marauder/releases, the
\* parent it lacks exist afterwards
makedirs(ds, path) ==
    ds \cup (IF path = ReleasesDir THEN {MarauderDir, ReleasesDir} ELSE {path})

\* a test that asks for the clone whatever the disk holds
NeedsCloneAlways(ds) == TRUE

\* `if not os.path.exists(self.local_dir):` of check_and_download
NeedsClone(ds) == extraesp32bins \notin ds

\* FirmwareManager.check_and_download
CheckAndDownload ==
    /\ pc = "check_and_download"
    /\ IF NeedsClone(dirs)
       THEN \E cloned \in BOOLEAN :
              /\ gitlog' = Append(gitlog, "clone")
              /\ dirs' = makedirs(dirs, extraesp32bins) \cup (IF cloned THEN {RepoGitDir} ELSE {})
              /\ pc' = IF cloned THEN "checkforesp32marauder" ELSE "crashed"
              /\ err' = IF cloned THEN "" ELSE "GitCommandError"
       ELSE /\ pc' = "checkforesp32marauder"
            /\ UNCHANGED <<gitlog, dirs, err>>
    /\ UNCHANGED <<args, runs, fw, updates, files, clock, fetchlog, tampered>>
    /\ UNCHANGED <<choiceVars, flashVars, portVars>>

\* what the fetches of checkforesp32marauder can do: the metadata query
\* fails, or it lists assets of which the first `got` download
MarauderFetches ==
    {[meta |-> FALSE, assets |-> <<>>, got |-> 0]}
    \cup UNION { {[meta |-> TRUE, assets |-> r, got |-> k] : k \in 0..Len(r)} : r \in RemoteReleases }

\* the requests.get calls of one such fetch, in order
MarauderGets(f) ==
    IF ~f.meta THEN <<marauderapi>>
    ELSE <<marauderapi>> \o SubSeq(f.assets, 1, IF f.got < Len(f.assets) THEN f.got + 1 ELSE f.got)

\* a test that also fetches when the directory holds no flipper build
NeedsMarauderFetchByContent(ds, fs) ==
    ReleasesDir \notin ds \/ Glob(fs, "_flipper.bin") = {}

\* `if not os.path.exists("ESP32Marauder/releases"):` it looks at the
\* directory alone, never at the files of the disk
NeedsMarauderFetch(ds, fs) == ReleasesDir \notin ds

\* ESP32Flasher.checkforesp32marauder
CheckForEsp32Marauder ==
    /\ pc = "checkforesp32marauder"
    /\ IF NeedsMarauderFetch(dirs, files)
       THEN \E f \in MarauderFetches :
              LET done == f.meta /\ f.got = Len(f.assets)
                  disk == Downloaded(files, clock, f.assets, f.got)
              IN  /\ dirs' = makedirs(dirs, ReleasesDir)
                  /\ fetchlog' = fetchlog \o MarauderGets(f)
                  /\ files' = disk
                  /\ clock' = clock + f.got
                  /\ IF done
                     THEN /\ \E latest \in get_latest_firmware(disk, "_flipper.bin") :
                                fw' = [fw EXCEPT !.esp32marauderfw = latest]
                          /\ pc' = "checkfors3bin"
                          /\ err' = ""
                     ELSE /\ fw' = fw
                          /\ pc' = "crashed"
                          /\ err' = "RequestException"
       ELSE /\ \E latest \in get_latest_firmware(files, "_flipper.bin") :
                  fw' = [fw EXCEPT !.esp32marauderfw = latest]
            /\ pc' = "checkfors3bin"
            /\ UNCHANGED <<dirs, fetchlog, files, clock, err>>
    /\ UNCHANGED <<args, runs, updates, gitlog, tampered>>
    /\ UNCHANGED <<choiceVars, flashVars, portVars>>

\* ESP32Flasher.checkfors3bin
CheckForS3Bin ==
    /\ pc = "checkfors3bin"
    /\ \E latest \in get_latest_firmware(files, "ultiboardS3.bin") :
          fw' = [fw EXCEPT !.esp32s3fw = latest]
    /\ pc' = "checkforoldhardwarebin"
    /\ UNCHANGED <<args, runs, err, updates, envVars, choiceVars, flashVars, portVars>>

\* ESP32Flasher.checkforoldhardwarebin
CheckForOldHardwareBin ==
    /\ pc = "checkforoldhardwarebin"
    /\ \E latest \in get_latest_firmware(files, "_old_hardware.bin") :
          fw' = [fw EXCEPT !.espoldhardwarefw = latest]
    /\ pc' = "checkforminibin"
    /\ UNCHANGED <<args, runs, err, updates, envVars, choiceVars, flashVars, portVars>>

\* ESP32Flasher.checkforminibin
CheckForMiniBin ==
    /\ pc = "checkforminibin"
    /\ \E latest \in get_latest_firmware(files, "_mini.bin") :
          fw' = [fw EXCEPT !.esp32minifw = latest]
    /\ pc' = "checkfornewhardwarebin"
    /\ UNCHANGED <<args, runs, err, updates, envVars, choiceVars, flashVars, portVars>>

\* ESP32Flasher.checkfornewhardwarebin
CheckForNewHardwareBin ==
    /\ pc = "checkfornewhardwarebin"
    /\ \E latest \in get_latest_firmware(files, "_v6.bin") :
          fw' = [fw EXCEPT !.espnewhardwarefw = latest]
    /\ pc' = "checkforevilportal"
    /\ UNCHANGED <<args, runs, err, updates, envVars, choiceVars, flashVars, portVars>>

\* the two downloads of checkforevilportal, in order
EvilPortalDownloads ==
    << [url |-> evilportalwroomurl, path |-> EvilPortalWroomBin],
       [url |-> evilportals2url, path |-> EvilPortalS2Bin] >>

\* a test that also fetches when the WROOM binary is not on the disk
NeedsEvilPortalFetchByContent(ds, fs) ==
    EvilPortalDir \notin ds \/ EvilPortalWroomBin \notin DOMAIN fs

\* `if not os.path.exists('EvilPortal'):` it looks at the directory alone,
\* never at the files of the disk
NeedsEvilPortalFetch(ds, fs) == EvilPortalDir \notin ds

\* ESP32Flasher.checkforevilportal; `got` of the two downloads succeed
CheckForEvilPortal ==
    /\ pc = "checkforevilportal"
    /\ IF NeedsEvilPortalFetch(dirs, files)
       THEN \E got \in 0..Len(EvilPortalDownloads) :
              LET n == Len(EvilPortalDownloads)
                  tried == IF got < n THEN got + 1 ELSE got
              IN  /\ dirs' = makedirs(dirs, EvilPortalDir)
                  /\ fetchlog' = fetchlog \o [i \in 1..tried |-> EvilPortalDownloads[i].url]
                  /\ files' = [p \in DOMAIN files \cup {EvilPortalDownloads[i].path : i \in 1..got} |->
                                 IF \E i \in 1..got : EvilPortalDownloads[i].path = p
                                 THEN clock + (CHOOSE i \in 1..got : EvilPortalDownloads[i].path = p) - 1
                                 ELSE files[p]]
                  /\ clock' = clock + got
                  /\ pc' = IF got = n THEN "choose_fw" ELSE "crashed"
                  /\ err' = IF got = n THEN "" ELSE "RequestException"
                  /\ fw' = IF got = n
                           THEN [fw EXCEPT !.evilportalfwwroom = EvilPortalWroomBin,
                                           !.evilportalfws2 = EvilPortalS2Bin]
                           ELSE fw
       ELSE /\ fw' = [fw EXCEPT !.evilportalfwwroom = EvilPortalWroomBin,
                                !.evilportalfws2 = EvilPortalS2Bin]
            /\ pc' = "choose_fw"
            /\ UNCHANGED <<dirs, fetchlog, files, clock, err>>
    /\ UNCHANGED <<args, runs, updates, gitlog, tampered>>
    /\ UNCHANGED <<choiceVars, flashVars, portVars>>

(***************************************************************************)
(* Selection and dispatch.                                                 *)
(***************************************************************************)
\* ESP32Flasher.choose_fw, up to its call of flash_firmware
ChooseFw ==
    /\ pc = "choose_fw"
    /\ IF fwchoice # None
       THEN /\ fwchoicepreselect' = "True"
            /\ pc' = "flash_firmware"
            /\ UNCHANGED <<fwchoice, prompts, err>>
       ELSE /\ fwchoicepreselect' = "False"
            /\ prompts' = prompts + 1
            /\ \E line \in InputLines :
                 IF IsIntLiteral(line)
                 THEN /\ fwchoice' = IntOf(line)
                      /\ pc' = "flash_firmware"
                      /\ err' = ""
                 ELSE /\ fwchoice' = fwchoice
                      /\ pc' = "crashed"
                      /\ err' = "ValueError"
    /\ UNCHANGED <<args, runs, fw, updates, envVars, flashVars, portVars>>

\* the if/elif chain of flash_firmware: where a valid, unpacked choice goes
Dispatch(c) ==
    CASE c = 16 -> "erase_esp32"
      [] c = 17 -> "update_option"
      [] c = 18 -> "exited"
      [] OTHER  -> "checkforserialport"

\* ESP32Flasher.flash_firmware, up to the call its choice leads to
FlashFirmware ==
    /\ pc = "flash_firmware"
    /\ IF ~ValidChoice(fwchoice)
       THEN /\ pc' = "exited"
            /\ err' = "InvalidOption"
            /\ UNCHANGED <<selectedfw, selectedboard, profile>>
       ELSE IF ~Unpacks(OptionRow(fwchoice))
       THEN /\ pc' = "crashed"
            /\ err' = "ValueError"
            /\ UNCHANGED <<selectedfw, selectedboard, profile>>
       ELSE /\ selectedfw' = Unpack(OptionRow(fwchoice)).selectedfw
            /\ selectedboard' = Unpack(OptionRow(fwchoice)).selectedboard
            /\ profile' = Unpack(OptionRow(fwchoice))
            /\ pc' = Dispatch(fwchoice)
            /\ err' = IF Dispatch(fwchoice) = "exited" THEN "Exit" ELSE ""
    /\ attempts' = 0
    /\ UNCHANGED <<args, runs, fw, updates, flashparams, calls, envVars, choiceVars, portVars>>

(***************************************************************************)
(* Device discovery.                                                       *)
(***************************************************************************)
\* a test of the configured port that never skips the scan
NeverSkipsScan(port) == FALSE

\* `if self.serialport:` of checkforserialport: the scan is skipped
SkipsScan(port) == port # ""

\* a fallback that is taken whatever the session is
FallsBackAlways(preselect) == TRUE

\* `if not self.fwchoicepreselect:` the missing device leads to choose_fw
FallsBack(preselect) == preselect = "False"

\* a test after the scan that never finds the device missing
NoDeviceFoundNever(port) == FALSE

\* `if not self.serialport:` after the scan: no port matched
NoDeviceFound(port) == port = ""

\* ESP32Flasher.checkforserialport as flash_firmware calls it, and, when it
\* returns, the two parameter lists flash_firmware builds before it calls
\* flashtheboard.  Without a device it calls choose_fw (the frame of that
\* call is marked by nested) or exit().
CheckForSerialPort ==
    /\ pc = "checkforserialport"
    /\ discoveries' = discoveries + 1
    /\ IF SkipsScan(serialport)
       THEN /\ flashparams' = FlashParams(serialport, selectedboard, profile)
            /\ pc' = "erase_esp32"
            /\ UNCHANGED <<serialport, device, ports, nested, err>>
       ELSE \E ps \in PortLists :
              LET found == ScanPorts(ps)
              IN  /\ ports' = ps
                  /\ serialport' = found.serialport
                  /\ device' = found.device
                  /\ IF ~NoDeviceFound(found.serialport)
                     THEN /\ flashparams' = FlashParams(found.serialport, selectedboard, profile)
                          /\ pc' = "erase_esp32"
                          /\ UNCHANGED <<nested, err>>
                     ELSE IF FallsBack(fwchoicepreselect)
                     THEN /\ nested' = TRUE
                          /\ pc' = "choose_fw"
                          /\ UNCHANGED <<flashparams, err>>
                     ELSE /\ pc' = "exited"
                          /\ err' = "NoDevice"
                          /\ UNCHANGED <<flashparams, nested>>
    /\ attempts' = 0
    /\ UNCHANGED <<args, runs, fw, updates, selectedfw, selectedboard, profile, calls>>
    /\ UNCHANGED <<envVars, choiceVars>>

(***************************************************************************)
(* Erase and write with retries.                                           *)
(***************************************************************************)
\* tries of execute_esptool_command
tries == 3

\* the attempt count at which the except branch calls exit()
FinalAttempt == 3

\* an escalation test that is one attempt late
EscalatesLate(a) == a = FinalAttempt + 1

\* `if attempts == 3`
Escalates(a) == a = FinalAttempt

\* a loop that is also left after a failed attempt
LoopEndsOnFailure(ok, a) == TRUE

\* the for loop is left: by break after a success, or with range(tries) used up
LoopEnds(ok, a) == ok \/ a >= tries

\* a flashtheboard-like continuation that follows every erase by a write
AfterCommandAlwaysWrites(at, choice, inner) ==
    IF at = "erase_esp32" THEN "flashtheboard"
    ELSE IF inner THEN "crashed"
    ELSE "done"

\* where control goes when execute_esptool_command returns.  After the
\* erase of flashtheboard comes its write.  Otherwise flash_firmware and
\* choose_fw return: to the end of the program, or, from the choose_fw that
\* checkforserialport called, to print_device_type(device) in a frame that
\* never bound device.
AfterCommand(at, choice, inner) ==
    IF at = "erase_esp32" /\ choice # 16 THEN "flashtheboard"
    ELSE IF inner THEN "crashed"
    ELSE "done"

\* an esptool that never comes back from a call
EsptoolHangs == {}

\* esptool.main(params) comes back: it returns (TRUE) or raises (FALSE)
EsptoolReturns == BOOLEAN

\* ESP32Flasher.execute_esptool_command: one pass of its for loop, for the
\* erase of erase_esp32 or the write of flashtheboard
ExecuteEsptoolCommand ==
    /\ pc \in {"erase_esp32", "flashtheboard"}
    /\ attempts < tries
    /\ \E ok \in EsptoolReturns :
         LET a == attempts + 1
             params == IF pc = "erase_esp32" THEN EraseCommand ELSE flashparams
             step == IF pc = "erase_esp32" THEN "erase" ELSE "write"
         IN  /\ calls' = Append(calls, [step |-> step, params |-> params, ok |-> ok])
             /\ IF ~ok /\ Escalates(a)
                THEN /\ pc' = "exited"
                     /\ err' = "RetriesExhausted"
                     /\ attempts' = a
                ELSE IF LoopEnds(ok, a)
                THEN /\ pc' = AfterCommand(pc, fwchoice, nested)
                     /\ err' = IF AfterCommand(pc, fwchoice, nested) = "crashed"
                               THEN "UnboundLocalError" ELSE ""
                     /\ attempts' = 0
                ELSE /\ pc' = pc
                     /\ err' = ""
                     /\ attempts' = a
    /\ UNCHANGED <<args, runs, fw, updates, selectedfw, selectedboard, profile, flashparams>>
    /\ UNCHANGED <<envVars, choiceVars, portVars>>

(***************************************************************************)
(* Update all files.                                                       *)
(***************************************************************************)
\* a removal that takes a missing directory as nothing to clean
RmdirIgnoresMissing(d, ds) == FALSE

\* os.rmdir(d) raises FileNotFoundError
RmdirFails(d, ds) == d \notin ds

\* the repository-sync calls of update_option, in order
GitRefresh == <<"reset", "clean", "pull">>

\* a cleaning that deletes the cached files and leaves their directories
UpdateCleaningKeepsDirs(ds, fs) ==
    [err |-> "", dirs |-> ds, files |-> RemoveFiles(fs, CachedAssetFiles(fs))]

\* update_option from its first line to Repo(extrarepo): the disk it
\* leaves and the exception that ended it ("" when none did)
UpdateCleaning(ds, fs) ==
    LET cleaned == RemoveFiles(fs, CachedAssetFiles(fs))
        d1 == ds \ {ReleasesDir}
        d2 == d1 \ {MarauderDir}
        d3 == d2 \ {EvilPortalDir}
    IN  IF RmdirFails(ReleasesDir, ds)
        THEN [err |-> "FileNotFoundError", dirs |-> ds, files |-> cleaned]
        ELSE IF RmdirFails(MarauderDir, d1)
        THEN [err |-> "FileNotFoundError", dirs |-> d1, files |-> cleaned]
        ELSE IF RmdirFails(EvilPortalDir, d2)
        THEN [err |-> "FileNotFoundError", dirs |-> d2, files |-> cleaned]
        ELSE IF extraesp32bins \notin d3
        THEN [err |-> "NoSuchPathError", dirs |-> d3, files |-> cleaned]
        ELSE IF RepoGitDir \notin d3
        THEN [err |-> "InvalidGitRepositoryError", dirs |-> d3, files |-> cleaned]
        ELSE [err |-> "", dirs |-> d3, files |-> cleaned]

\* ESP32Flasher.update_option up to its call of prereqcheck; `git` of the
\* three repository calls succeed.  Every refresh nests three more frames
\* (choose_fw, flash_firmware, update_option); the call of prereqcheck in
\* the MaxUpdates-th refresh is where the recursion limit is met.
UpdateOption ==
    /\ pc = "update_option"
    /\ LET c == UpdateCleaning(dirs, files)
       IN  /\ dirs' = c.dirs
           /\ files' = c.files
           /\ IF c.err # ""
              THEN /\ pc' = "crashed"
                   /\ err' = c.err
                   /\ UNCHANGED <<gitlog, updates>>
              ELSE \E git \in 0..Len(GitRefresh) :
                     /\ gitlog' = gitlog \o SubSeq(GitRefresh, 1,
                                     IF git < Len(GitRefresh) THEN git + 1 ELSE git)
                     /\ IF git < Len(GitRefresh)
                        THEN /\ pc' = "crashed"
                             /\ err' = "GitCommandError"
                             /\ updates' = updates
                        ELSE /\ updates' = updates + 1
                             /\ pc' = IF updates + 1 >= MaxUpdates
                                      THEN "crashed" ELSE "check_and_download"
                             /\ err' = IF updates + 1 >= MaxUpdates
                                       THEN "RecursionError" ELSE ""
    /\ UNCHANGED <<args, runs, fw, clock, fetchlog, tampered>>
    /\ UNCHANGED <<choiceVars, flashVars, portVars>>

(***************************************************************************)
(* The world outside the process.                                          *)
(***************************************************************************)
\* the files under a directory
FilesUnder(fs, d) ==
    {p \in DOMAIN fs :
        \/ d \in {MarauderDir, ReleasesDir} /\ \E n \in ReleaseNames : p = ReleasePath(n)
        \/ d = EvilPortalDir /\ p \in {EvilPortalWroomBin, EvilPortalS2Bin}}

\* Somebody removes a cache directory while choose_fw waits before it
\* honours a standing choice of update: the one place where a later step of
\* this run (update_option) reads whether these directories exist.
ExternalDelete ==
    /\ pc = "choose_fw"
    /\ fwchoice = 17
    /\ ~tampered
    /\ \E d \in {MarauderDir, ReleasesDir, EvilPortalDir} :
         /\ d \in dirs
         /\ dirs' = dirs \ (IF d = MarauderDir THEN {MarauderDir, ReleasesDir} ELSE {d})
         /\ files' = RemoveFiles(files, FilesUnder(files, d))
    /\ tampered' = TRUE
    /\ UNCHANGED <<pc, err, args, runs, fw, updates, clock, gitlog, fetchlog>>
    /\ UNCHANGED <<choiceVars, flashVars, portVars>>

Next ==
    \/ CheckAndDownload
    \/ CheckForEsp32Marauder
    \/ CheckForS3Bin
    \/ CheckForOldHardwareBin
    \/ CheckForMiniBin
    \/ CheckForNewHardwareBin
    \/ CheckForEvilPortal
    \/ ChooseFw
    \/ FlashFirmware
    \/ CheckForSerialPort
    \/ ExecuteEsptoolCommand
    \/ UpdateOption
    \/ ExternalDelete

Spec == Init /\ [][Next]_vars

(***************************************************************************)
(* Runs that follow one another on the same disk.                          *)
(***************************************************************************)
\* After a run whose first prerequisite check a failed request ended, the
\* operator starts the program again with the same command line: a new
\* process, constructed as in Init, on the disk the ended run left behind.
Restart ==
    /\ pc = "crashed"
    /\ err = "RequestException"
    /\ updates = 0
    /\ runs < MaxRuns
    /\ runs' = runs + 1
    /\ args' = args
    /\ serialport' = args.serialport
    /\ fwchoice' = args.preselect
    /\ fwchoicepreselect' = "unset"
    /\ selectedfw' = ""
    /\ selectedboard' = ""
    /\ fw' = NoFirmware
    /\ profile' = NoProfile
    /\ flashparams' = <<>>
    /\ attempts' = 0
    /\ nested' = FALSE
    /\ device' = Unbound
    /\ ports' = <<>>
    /\ calls' = <<>>
    /\ gitlog' = <<>>
    /\ fetchlog' = <<>>
    /\ updates' = 0
    /\ prompts' = 0
    /\ discoveries' = 0
    /\ tampered' = FALSE
    /\ pc' = "check_and_download"
    /\ err' = ""
    /\ UNCHANGED <<dirs, files, clock>>

NextRuns == Next \/ Restart

SpecRuns == Init /\ [][NextRuns]_vars

\* One run in which the single control thread goes on whenever it can: no
\* call stays out for ever and the operator answers the prompt.
SpecFair == Spec /\ WF_vars(Next)

TypeOK ==
    /\ pc \in {"check_and_download", "checkforesp32marauder", "checkfors3bin",
               "checkforoldhardwarebin", "checkforminibin", "checkfornewhardwarebin",
               "checkforevilportal", "choose_fw", "flash_firmware",
               "checkforserialport", "erase_esp32", "flashtheboard",
               "update_option"} \cup Terminal
    /\ attempts \in 0..tries
    /\ updates \in 0..MaxUpdates
    /\ runs \in 1..MaxRuns
    /\ ReleasesDir \in dirs => MarauderDir \in dirs
    /\ (pc \in Terminal /\ pc # "done") <=> err # ""

(***************************************************************************)
(* Properties.                                                             *)
(***************************************************************************)
PrereqPcs ==
    {"check_and_download", "checkforesp32marauder", "checkfors3bin",
     "checkforoldhardwarebin", "checkforminibin", "checkfornewhardwarebin",
     "checkforevilportal"}

\* the invocations of one sub-step, in order
StepCalls(s) == SelectSeq(calls, LAMBDA c : c.step = s)

\* a sub-step's invocations all failed and are as many as the retry limit
Exhausted(s) ==
    /\ Len(StepCalls(s)) = 3
    /\ \A i \in 1..3 : ~StepCalls(s)[i].ok

\* a sub-step's last invocation succeeded
Succeeded(s) ==
    /\ StepCalls(s) # <<>>
    /\ StepCalls(s)[Len(StepCalls(s))].ok

\* C1: retry policy, for the erase and the write sub-step alike.  A sub-step
\* never invokes the flasher more than 3 times, and invokes it again only
\* after a failure: so k failures and then a success are exactly k+1
\* invocations (k in 0..2), after which the sub-step is over and control is
\* past it.  After fewer than 3 failures and no success the sub-step is
\* still retrying.  After 3 failures the process has ended fatally, and if
\* that was the erase no write was ever started.
C1_RetryPolicy ==
    \A s \in {"erase", "write"} :
      LET cs == StepCalls(s)
          at == IF s = "erase" THEN "erase_esp32" ELSE "flashtheboard"
      IN  /\ Len(cs) <= 3
          /\ \A i \in 1..(Len(cs) - 1) : ~cs[i].ok
          /\ Succeeded(s) =>
                /\ pc # at
                /\ pc = "exited" => (s = "erase" /\ Exhausted("write"))
          /\ (cs # <<>> /\ ~Succeeded(s) /\ Len(cs) < 3) =>
                (pc = at /\ attempts = Len(cs))
          /\ Exhausted(s) =>
                /\ pc = "exited"
                /\ err = "RetriesExhausted"
                /\ s = "erase" => StepCalls("write") = <<>>

\* C1 witness: the erase failed twice and then succeeded (3 invocations),
\* and the write then failed 3 times and ended the process
C1_Witness ==
    /\ Len(StepCalls("erase")) = 3
    /\ Succeeded("erase")
    /\ Exhausted("write")
    /\ pc = "exited"

\* C2: erase before write.  Every write invocation comes after a successful
\* erase invocation of the same run, control is at the write only after
\* such an erase, and an erase that used up its retries is followed by no
\* write invocation.
C2_EraseBeforeWrite ==
    /\ \A i \in 1..Len(calls) :
          calls[i].step = "write" =>
             \E j \in 1..(i - 1) : calls[j].step = "erase" /\ calls[j].ok
    /\ pc = "flashtheboard" => Succeeded("erase")
    /\ Exhausted("erase") => (StepCalls("write") = <<>> /\ pc # "flashtheboard")

\* C2 witness: a write was invoked after an erase that failed once first
C2_Witness ==
    /\ StepCalls("write") # <<>>
    /\ Len(StepCalls("erase")) = 2
    /\ fwchoice \in 1..15

\* C3 (as claimed): with the prerequisites in place, a flashable choice
\* with a preconfigured port and a flasher that never fails ends in Done
\* after exactly one erase and then one write invocation
C3_FlashableChoiceErasesThenWrites ==
    ( /\ fwchoice \in 1..15
      /\ args.serialport # ""
      /\ pc \in Terminal
      /\ err \notin {"GitCommandError", "RequestException"}
      /\ \A i \in 1..Len(calls) : calls[i].ok )
    => /\ pc = "done"
       /\ Len(calls) = 2
       /\ calls[1].step = "erase"
       /\ calls[2].step = "write"

\* int(offset, 16) of the offsets of the table
HexValue(h) ==
    CASE h = "0x0" -> 0
      [] h = "0x1000" -> 4096
      [] h = "0x8000" -> 32768
      [] h = "0xE000" -> 57344
      [] h = "0x10000" -> 65536
      [] OTHER -> -1

\* C4 (as claimed): once selection and parameter resolution are over for a
\* flashable choice, a profile has been resolved and its offsets are
\* strictly increasing
C4_ProfileOffsetsIncreasing ==
    ( /\ fwchoice \in 1..15
      /\ pc \notin PrereqPcs \cup {"choose_fw", "flash_firmware"}
      /\ err \notin {"GitCommandError", "RequestException"} )
    => /\ profile # NoProfile
       /\ 0 <= HexValue(profile.offset_one)
       /\ HexValue(profile.offset_one) < HexValue(profile.offset_two)
       /\ HexValue(profile.offset_two) < HexValue(profile.offset_three)

\* C5: once an integer outside 1..18 is the choice, no device discovery and
\* no flasher invocation (and no update) has occurred or occurs, and when
\* selection is over the process has ended by the invalid-option exit
C5_InvalidChoiceExits ==
    (fwchoice # None /\ fwchoice \notin 1..18)
    => /\ calls = <<>>
       /\ discoveries = 0
       /\ updates = 0
       /\ pc \in PrereqPcs \cup {"choose_fw", "flash_firmware", "exited", "crashed"}
       /\ pc = "exited" => err = "InvalidOption"
       /\ pc = "crashed" => err \in {"GitCommandError", "RequestException"}

\* C5 witness: a negative number typed at the prompt ended the run
C5_Witness ==
    /\ prompts = 1
    /\ fwchoice # None
    /\ fwchoice < 0
    /\ pc = "exited"
    /\ err = "InvalidOption"

\* the attribute a table row names as its firmware binary
ResolvedFirmware(c) ==
    CASE c \in {1, 9, 10, 11} -> fw.esp32marauderfw
      [] c \in {4, 8} -> fw.espoldhardwarefw
      [] c \in {5, 13} -> fw.esp32minifw
      [] c \in {6, 12} -> fw.espnewhardwarefw
      [] c = 7 -> fw.esp32s3fw
      [] c = 14 -> fw.evilportalfwwroom
      [] OTHER -> fw.evilportalfws2

\* C6 (as claimed): for a choice whose firmware binary is resolved by the
\* prerequisite checks, the last binary of every write invocation is the
\* path the most recent check stored
C6_WritePassesResolvedPath ==
    \A i \in 1..Len(calls) :
      (calls[i].step = "write" /\ fwchoice \in (1..15) \ {2, 3})
      => calls[i].params[Len(calls[i].params)] = ResolvedFirmware(fwchoice)

\* C7 (as claimed): in a session that has a target port, every flasher
\* invocation starts with -p <port> -b 115200, and a write invocation is the
\* whole list of the flash parameters
C7_EveryInvocationCarriesPortAndBaud ==
    \A i \in 1..Len(calls) :
      serialport # "" =>
      /\ Len(calls[i].params) >= 4
      /\ SubSeq(calls[i].params, 1, 4) = <<"-p", serialport, "-b", "115200">>
      /\ calls[i].step = "write" =>
            calls[i].params = FlashParams(serialport, selectedboard, profile)

\* C8 (as claimed): in an interactive session every completed update is
\* followed by a new prompt before the next action is dispatched
C8_UpdateReentersSelection ==
    (args.preselect = None /\ updates >= 1 /\ pc = "flash_firmware")
    => prompts = updates + 1

\* C9: a step taken by update_option while one of the three cache
\* directories is missing ends the process with FileNotFoundError, with no
\* repository call, no fetch and no flasher invocation made and no firmware
\* path resolved again; and an ended process takes no further step
C9_UpdateFailsOnMissingDirectory ==
    [][ /\ pc \notin Terminal
        /\ (pc = "update_option" /\ ~({ReleasesDir, MarauderDir, EvilPortalDir} \subseteq dirs))
           => /\ pc' = "crashed"
              /\ err' = "FileNotFoundError"
              /\ UNCHANGED <<gitlog, fetchlog, calls, fw, updates>> ]_vars

\* C9 witness: an update met a deleted directory and ended the run
C9_Witness ==
    /\ pc = "crashed"
    /\ err = "FileNotFoundError"
    /\ fwchoice = 17
    /\ tampered

\* the ports of a list that match a vendor id, by position
Matching(v, ps) == {j \in 1..Len(ps) : Contains(v, ps[j].hwid)}

\* the positions in vids of the vendor ids that match some port
MatchedVids(ps) == {i \in 1..Len(vids) : Matching(vids[i], ps) # {}}

Greatest(S) == CHOOSE x \in S : \A y \in S : y <= x

Least(S) == CHOOSE x \in S : \A y \in S : x <= y

\* C10 (as claimed): after a scan that matched, the vendor signature is the
\* first vendor id of the list that matches any port, and the target port
\* is the last enumerated port matching it
C10_FirstVendorWins ==
    MatchedVids(ports) # {}
    => /\ device = vids[Least(MatchedVids(ports))]
       /\ serialport = ports[Greatest(Matching(vids[Least(MatchedVids(ports))], ports))].device

\* C10 (amended): after a scan that matched, the vendor signature is the
\* last vendor id of the list that matches any port, and the target port
\* is the last enumerated port matching it
C10_LastVendorWins ==
    MatchedVids(ports) # {}
    => /\ device = vids[Greatest(MatchedVids(ports))]
       /\ serialport = ports[Greatest(Matching(vids[Greatest(MatchedVids(ports))], ports))].device

\* C10 witness: two ports matching different vendor ids were enumerated,
\* the one of the earlier vendor id last, and the erase is about to start
C10_Witness ==
    /\ Cardinality(MatchedVids(ports)) = 2
    /\ Matching(vids[Least(MatchedVids(ports))], ports) = {2}
    /\ pc = "erase_esp32"

\* C11 (as claimed): in a session whose choice was entered at the menu, a
\* scan that finds no device leads to a new prompt before anything is
\* dispatched again, and the process never ends for want of a device
C11_FallbackPromptsAgain ==
    args.preselect = None
    => /\ err # "NoDevice"
       /\ (nested /\ pc # "choose_fw") => prompts >= 2

\* C12: with a flashable choice preselected and no port configured, once a
\* scan has matched no device the process has ended by the no-device exit
\* after that one discovery, with no prompt, no fallback selection and no
\* flasher invocation
C12_PreselectedNoDeviceExits ==
    ( /\ args.preselect \in 1..15
      /\ args.serialport = ""
      /\ discoveries >= 1
      /\ MatchedVids(ports) = {} )
    => /\ pc = "exited"
       /\ err = "NoDevice"
       /\ discoveries = 1
       /\ prompts = 0
       /\ ~nested
       /\ calls = <<>>

\* C12 witness: choice 1 preselected, one unrelated port enumerated, the
\* run has ended
C12_Witness ==
    /\ args.preselect = 1
    /\ args.serialport = ""
    /\ Len(ports) = 1
    /\ MatchedVids(ports) = {}
    /\ pc = "exited"

\* C13: with choice 16 preselected no write is ever invoked and no device
\* discovery is made, and a run of it whose prerequisites were in place and
\* whose flasher did not fail has, once ended, ended normally after exactly
\* one erase invocation
C13_EraseOnly ==
    args.preselect = 16
    => /\ StepCalls("write") = <<>>
       /\ discoveries = 0
       /\ ( /\ pc \in Terminal
            /\ err \notin {"GitCommandError", "RequestException"}
            /\ \A i \in 1..Len(calls) : calls[i].ok )
          => /\ pc = "done"
             /\ Len(calls) = 1
             /\ calls[1].step = "erase"

\* C13 witness: choice 16 preselected with a configured port, ended
\* normally after one successful erase
C13_Witness ==
    /\ args.preselect = 16
    /\ args.serialport # ""
    /\ pc = "done"
    /\ Len(calls) = 1
    /\ calls[1].ok

\* C14: with a port configured no port list is ever enumerated and no
\* vendor signature bound, the port stays the configured one, and every
\* write invocation names exactly it after -p
C14_ConfiguredPortKept ==
    args.serialport # ""
    => /\ ports = <<>>
       /\ device = Unbound
       /\ ~nested
       /\ serialport = args.serialport
       /\ \A i \in 1..Len(calls) :
             calls[i].step = "write" =>
                (calls[i].params[1] = "-p" /\ calls[i].params[2] = args.serialport)

\* C14 witness: a write succeeded in a session with a configured port,
\* after discovery was entered
C14_Witness ==
    /\ args.serialport # ""
    /\ discoveries = 1
    /\ Succeeded("write")

\* the number of entries of a log that satisfy a test
RECURSIVE CountIn(_, _)
CountIn(log, wanted) ==
    IF log = <<>> THEN 0
    ELSE (IF Head(log) \in wanted THEN 1 ELSE 0) + CountIn(Tail(log), wanted)

\* C15: a call of check_and_download that finds the directory makes no
\* clone call and changes nothing on the disk; a call that does not find it
\* creates it and makes exactly one clone call; and as nothing removes the
\* directory, a run never holds more than one clone call
C15_CloneOnlyWhenAbsent ==
    /\ [](CountIn(gitlog, {"clone"}) <= 1)
    /\ [][ pc = "check_and_download" =>
             IF extraesp32bins \in dirs
             THEN gitlog' = gitlog /\ dirs' = dirs /\ files' = files
             ELSE /\ extraesp32bins \in dirs'
                  /\ gitlog' = Append(gitlog, "clone") ]_vars

\* C15 witness: the first call cloned, a refresh called check_and_download
\* again, and the log still holds the one clone call
C15_Witness ==
    /\ updates = 1
    /\ pc = "checkforesp32marauder"
    /\ CountIn(gitlog, {"clone"}) = 1

\* the five resolutions of prereqcheck: where each happens, the tail of its
\* glob pattern and the attribute that takes the result
Resolutions ==
    { [at |-> "checkforesp32marauder", tail |-> "_flipper.bin", attr |-> "esp32marauderfw"],
      [at |-> "checkfors3bin", tail |-> "ultiboardS3.bin", attr |-> "esp32s3fw"],
      [at |-> "checkforoldhardwarebin", tail |-> "_old_hardware.bin", attr |-> "espoldhardwarefw"],
      [at |-> "checkforminibin", tail |-> "_mini.bin", attr |-> "esp32minifw"],
      [at |-> "checkfornewhardwarebin", tail |-> "_v6.bin", attr |-> "espnewhardwarefw"] }

\* C16: every resolution that returns leaves the disk as it found it;
\* over an empty match set it returns not-found, and otherwise one path of
\* the match set whose creation time no other match exceeds
C16_ResolvesLatest ==
    [][ \A r \in Resolutions :
          (pc = r.at /\ pc' # "crashed") =>
             LET matches == Glob(files', r.tail)
                 result == fw'[r.attr]
             IN  /\ (r.at # "checkforesp32marauder" \/ ReleasesDir \in dirs)
                       => (files' = files /\ dirs' = dirs)
                 /\ IF matches = {} THEN result = NoneStr
                    ELSE /\ result \in matches
                         /\ \A q \in matches : files'[q] <= files'[result] ]_vars

\* C16 witness: two flipper builds of different creation times are on the
\* disk, the later one was resolved, and the old-hardware resolution over
\* no match returned not-found
C16_Witness ==
    /\ pc = "checkforminibin"
    /\ \E p, q \in Glob(files, "_flipper.bin") : files[p] < files[q] /\ fw.esp32marauderfw = q
    /\ Glob(files, "_old_hardware.bin") = {}
    /\ fw.espoldhardwarefw = NoneStr

\* the requests.get calls that belong to the versioned family
MarauderUrls == {marauderapi} \cup {AssetUrl(n) : n \in ReleaseNames}

\* C17: for either family the fetch depends on the directory alone.  A
\* check that finds the directory makes no request and changes nothing on
\* the disk, whatever the directory holds; a check of the versioned family
\* that does not find it creates it and, when it returns, has made the
\* metadata query and then one download per listed asset, each asset now a
\* file; a check of the fixed pair that does not find its directory creates
\* it and, when it returns, has made exactly the two downloads and written
\* the two files
C17_FetchGatedByDirectory ==
    [][ /\ pc = "checkforesp32marauder" =>
             IF ReleasesDir \in dirs
             THEN fetchlog' = fetchlog /\ files' = files /\ dirs' = dirs
             ELSE /\ ReleasesDir \in dirs'
                  /\ pc' # "crashed" =>
                       \E r \in RemoteReleases :
                          /\ fetchlog' = fetchlog \o <<marauderapi>> \o r
                          /\ \A i \in 1..Len(r) : ReleasePath(RSplitLast(r[i])) \in DOMAIN files'
        /\ pc = "checkforevilportal" =>
             IF EvilPortalDir \in dirs
             THEN fetchlog' = fetchlog /\ files' = files /\ dirs' = dirs
             ELSE /\ EvilPortalDir \in dirs'
                  /\ pc' # "crashed" =>
                       /\ fetchlog' = fetchlog \o <<evilportalwroomurl, evilportals2url>>
                       /\ DOMAIN files' = DOMAIN files \cup {EvilPortalWroomBin, EvilPortalS2Bin} ]_vars

\* C17 witness: both directories were there and empty, both checks have
\* run, and no request was made
C17_Witness ==
    /\ pc = "choose_fw"
    /\ {ReleasesDir, EvilPortalDir} \subseteq dirs
    /\ DOMAIN files = {}
    /\ fetchlog = <<>>

\* C18 (as claimed): in an interactive session, after a prompt that was
\* not answered with an integer the program is at the selection again,
\* with no error raised
C18_NonIntegerInputRepeatsPrompt ==
    (args.preselect = None /\ prompts >= 1 /\ fwchoice = None)
    => (pc = "choose_fw" /\ err = "")

\* C19 (as claimed): once a write has succeeded the process has ended
\* normally, with no error, on every path to that write
C19_WriteSuccessEndsNormally ==
    Succeeded("write") => (pc = "done" /\ err = "")

\* the requests.get calls that belong to the fixed pair
EvilPortalUrls == {evilportalwroomurl, evilportals2url}

\* the files of the versioned family and of the fixed pair on a disk
MarauderFiles(fs) == {p \in DOMAIN fs : \E n \in ReleaseNames : p = ReleasePath(n)}

EvilPortalFiles(fs) == DOMAIN fs \cap {EvilPortalWroomBin, EvilPortalS2Bin}

\* C20: over the runs that follow one another on a disk, a step that starts
\* with a family's directory present (a failed fetch of an earlier run left
\* it empty or partly filled, or not) makes no request of that family and
\* puts no file of it on the disk; and the directory, once there, is only
\* removed by update_option or from outside the process.  So what a failed
\* fetch left missing stays missing until an update removes the directory.
C20_FetchNeverRetried ==
    [][ /\ ReleasesDir \in dirs =>
             /\ CountIn(fetchlog', MarauderUrls) <= CountIn(fetchlog, MarauderUrls)
             /\ MarauderFiles(files') \subseteq MarauderFiles(files)
             /\ ReleasesDir \notin dirs' => (pc = "update_option" \/ tampered')
        /\ EvilPortalDir \in dirs =>
             /\ CountIn(fetchlog', EvilPortalUrls) <= CountIn(fetchlog, EvilPortalUrls)
             /\ EvilPortalFiles(files') \subseteq EvilPortalFiles(files)
             /\ EvilPortalDir \notin dirs' => (pc = "update_option" \/ tampered') ]_vars

\* C20 witness: the first run's fetch of the versioned family failed with
\* the flipper build missing and the fixed pair's fetch never started; the
\* second run has passed its prerequisite checks, made no request for the
\* versioned family, and resolved no flipper build, while it fetched the
\* fixed pair, whose directory was absent
C20_Witness ==
    /\ runs = 2
    /\ pc = "choose_fw"
    /\ updates = 0
    /\ ReleasesDir \in dirs
    /\ Glob(files, "_flipper.bin") = {}
    /\ fw.esp32marauderfw = NoneStr
    /\ CountIn(fetchlog, MarauderUrls) = 0
    /\ CountIn(fetchlog, EvilPortalUrls) = 2

\* C21: order and effect of a successful update.  update_option reaches
\* its repository calls only with every cached asset file deleted and the
\* three cache directories removed, and reaches prereqcheck only after
\* reset, clean and pull, in that order.  The prerequisite pass that
\* follows never clones; it finds both release directories absent, so its
\* check of the versioned family starts with the metadata query and, when
\* it returns, has downloaded every listed asset, its check of the fixed
\* pair, when it returns, has downloaded the two files, and when selection
\* is entered again every firmware path is resolved over the new files
C21_UpdateOrderAndEffect ==
    /\ []( (updates >= 1 /\ pc = "checkforesp32marauder")
              => (ReleasesDir \notin dirs /\ MarauderFiles(files) = {}) )
    /\ []( (updates >= 1 /\ pc = "checkforevilportal")
              => (EvilPortalDir \notin dirs /\ EvilPortalFiles(files) = {}) )
    /\ []( (updates >= 1 /\ pc = "choose_fw" /\ ~tampered)
              => /\ \A r \in Resolutions :
                      IF Glob(files, r.tail) = {} THEN fw[r.attr] = NoneStr
                      ELSE /\ fw[r.attr] \in Glob(files, r.tail)
                           /\ \A q \in Glob(files, r.tail) : files[q] <= files[fw[r.attr]]
                 /\ fw.evilportalfwwroom = EvilPortalWroomBin
                 /\ fw.evilportalfws2 = EvilPortalS2Bin
                 /\ {EvilPortalWroomBin, EvilPortalS2Bin} \subseteq DOMAIN files
                 /\ Glob(files, "_flipper.bin") # {} )
    /\ [][ /\ pc = "update_option" =>
                /\ gitlog' # gitlog =>
                      /\ MarauderFiles(files') = {}
                      /\ EvilPortalFiles(files') = {}
                      /\ dirs' \cap {ReleasesDir, MarauderDir, EvilPortalDir} = {}
                /\ pc' = "check_and_download" =>
                      gitlog' = gitlog \o <<"reset", "clean", "pull">>
           /\ (updates >= 1 /\ pc = "check_and_download") =>
                (gitlog' = gitlog /\ pc' = "checkforesp32marauder")
           /\ (updates >= 1 /\ pc = "checkforesp32marauder") =>
                /\ Len(fetchlog') > Len(fetchlog)
                /\ fetchlog'[Len(fetchlog) + 1] = marauderapi
                /\ pc' # "crashed" =>
                      \E r \in RemoteReleases :
                         /\ fetchlog' = fetchlog \o <<marauderapi>> \o r
                         /\ MarauderFiles(files') = {ReleasePath(RSplitLast(r[i])) : i \in 1..Len(r)}
           /\ (updates >= 1 /\ pc = "checkforevilportal" /\ pc' # "crashed") =>
                /\ fetchlog' = fetchlog \o <<evilportalwroomurl, evilportals2url>>
                /\ EvilPortalFiles(files') = {EvilPortalWroomBin, EvilPortalS2Bin} ]_vars

\* C21 witness: a run on a disk with everything cached (so its first pass
\* fetched nothing and cloned nothing) has updated once and is back at the
\* selection with newly downloaded assets
C21_Witness ==
    /\ updates = 1
    /\ pc = "choose_fw"
    /\ ~tampered
    /\ gitlog = <<"reset", "clean", "pull">>
    /\ CountIn(fetchlog, {marauderapi}) = 1
    /\ CountIn(fetchlog, EvilPortalUrls) = 2
    /\ fw.esp32marauderfw \in Glob(files, "_flipper.bin")

FirmwareAttributes ==
    {"esp32marauderfw", "esp32s3fw", "espoldhardwarefw", "esp32minifw",
     "espnewhardwarefw", "evilportalfwwroom", "evilportalfws2"}

\* C23: whenever the run is at the selection, at the dispatch or at the
\* start of update_option, a full prerequisite pass has set every firmware
\* attribute, and, unless a directory was deleted from outside the
\* process, ESP32Marauder, ESP32Marauder/releases and EvilPortal exist; so a
\* run nobody tampered with never ends by the directory-not-found failure
C23_UpdateFindsItsDirectories ==
    /\ pc \in {"choose_fw", "flash_firmware", "update_option"} =>
          /\ \A a \in FirmwareAttributes : fw[a] # "unset"
          /\ ~tampered => {MarauderDir, ReleasesDir, EvilPortalDir} \subseteq dirs
    /\ ~tampered => err # "FileNotFoundError"

\* C23 witness: a second update begins, after the pass that ended the
\* first one created the directories anew
C23_Witness ==
    /\ pc = "update_option"
    /\ updates = 1
    /\ ~tampered
    /\ {MarauderDir, ReleasesDir, EvilPortalDir} \subseteq dirs

\* a port a write may name: the configured one, or the device of a port
\* of the last scan that carries one of the vendor ids
TargetPort(port) ==
    /\ port # ""
    /\ \/ port = args.serialport
       \/ \E j \in 1..Len(ports) :
             /\ ports[j].device = port
             /\ \E i \in 1..Len(vids) : j \in Matching(vids[i], ports)

\* C24: the write parameter list, whenever it is built, and every write
\* invocation name after -p a port that is not empty and is the configured
\* port or one a scan matched; and from one step of the run to the next a
\* port that is set is never changed
C24_WriteNamesARealPort ==
    /\ []( flashparams # <<>> => (flashparams[1] = "-p" /\ TargetPort(flashparams[2])) )
    /\ []( \A i \in 1..Len(calls) :
              calls[i].step = "write" =>
                 (calls[i].params[1] = "-p" /\ TargetPort(calls[i].params[2])) )
    /\ [][ serialport # "" => serialport' = serialport ]_vars

\* C24 witness: the first scan matched nothing, the scan of the fallback
\* selection matched a port, and a write naming it was invoked
C24_Witness ==
    /\ nested
    /\ args.serialport = ""
    /\ StepCalls("write") # <<>>
    /\ StepCalls("write")[1].params[2] = serialport
    /\ serialport # ""

====
